---- MODULE Spec2Model ----
(***************************************************************************)
(* A model of src/models/Nas.js: the Synology download-station client.     *)
(*                                                                         *)
(* The client holds an endpoint (_url) and a session token (_sid).  Every  *)
(* operation is an async function: it builds a request configuration from  *)
(* the fields of the instance at the moment it is invoked, hands it to     *)
(* axios.request, and is resumed by the .then handler (a response arrived) *)
(* or by the .catch handler (the transport rejected, or .then threw).      *)
(* An invocation and its settlement are therefore two steps, and other     *)
(* invocations and settlements may run between them.                       *)
(***************************************************************************)
EXTENDS Integers, Sequences, FiniteSets, TLC

VARIABLES
    ctor,     \* "new" before the constructor ran, then "done" or "threw"
    arg,      \* the value the constructor was given
    _url,     \* this._url
    _sid,     \* this._sid
    http,     \* the transport: requests in flight and how many were issued
    calls,    \* how many operations were invoked
    settled,  \* how many times a promise of an operation was settled
    log,      \* what console.log has written
    last,     \* the operation that settled most recently
    granted   \* the sid fields of the successful login responses, in order

vars == <<ctor, arg, _url, _sid, http, calls, settled, log, last, granted>>

(***************************************************************************)
(* Bounds.                                                                 *)
(***************************************************************************)
MaxCalls == 2

(***************************************************************************)
(* JavaScript values, as records of one shape: t is the type, s the        *)
(* payload of a primitive, o the JSON body an object value was taken from. *)
(***************************************************************************)
NoBody ==
    [isObj |-> FALSE, success |-> FALSE, hasData |-> FALSE, sid |-> "undefined",
     tasks |-> "undefined", hasError |-> FALSE, code |-> 0]

\* A JSON envelope {success, data?: {sid?, tasks?}, error?: {code}}.
Envelope(success, hasData, sid, tasks, hasError, code) ==
    [isObj |-> TRUE, success |-> success, hasData |-> hasData, sid |-> sid,
     tasks |-> tasks, hasError |-> hasError, code |-> code]

Undefined == [t |-> "undefined", s |-> "", o |-> NoBody]
Bool(b) == [t |-> "boolean", s |-> IF b THEN "true" ELSE "false", o |-> NoBody]
Str(x) == [t |-> "string", s |-> x, o |-> NoBody]
Arr(x) == [t |-> "array", s |-> x, o |-> NoBody]
\* response.data: the whole body (null when the body is no object)
BodyVal(b) == [t |-> IF b.isObj THEN "body" ELSE "null", s |-> "", o |-> b]
\* response.data.data: the data object of the body
DataVal(b) ==
    IF b.isObj /\ b.hasData
    THEN [t |-> "data", s |-> "",
          o |-> Envelope(FALSE, TRUE, b.sid, b.tasks, FALSE, 0)]
    ELSE Undefined
\* response.data.data.sid and response.data.data.tasks
SidVal(b) == IF b.sid = "undefined" THEN Undefined ELSE Str(b.sid)
TasksVal(b) == IF b.tasks = "undefined" THEN Undefined ELSE Arr(b.tasks)

(***************************************************************************)
(* What the transport can answer.                                          *)
(***************************************************************************)
\* the status every handler compares with
HTTP_OK == 200

Bodies ==
    { Envelope(TRUE, TRUE, "sid_1", "tasks_1", FALSE, 0),
      Envelope(TRUE, TRUE, "sid_2", "tasks_2", FALSE, 0),
      Envelope(TRUE, TRUE, "undefined", "undefined", FALSE, 0),
      Envelope(TRUE, FALSE, "undefined", "undefined", FALSE, 0),
      Envelope(FALSE, FALSE, "undefined", "undefined", TRUE, 400),
      Envelope(FALSE, FALSE, "undefined", "undefined", TRUE, 105),
      Envelope(FALSE, FALSE, "undefined", "undefined", FALSE, 0),
      NoBody }

NetworkError == [kind |-> "error", status |-> 0, body |-> NoBody]

Responses ==
    { [kind |-> "response", status |-> HTTP_OK, body |-> b] : b \in Bodies }
    \cup
    { [kind |-> "response", status |-> 202, body |-> b] :
        b \in { Envelope(TRUE, TRUE, "sid_1", "tasks_1", FALSE, 0) } }
    \cup { NetworkError }

(***************************************************************************)
(* URLs.  A string is a sequence of tokens; new URL(string) parses it.     *)
(***************************************************************************)
NoURL == [protocol |-> "", hostname |-> "", port |-> ""]

DefaultPort(protocol) ==
    IF protocol = "https:" THEN "443"
    ELSE IF protocol = "http:" THEN "80" ELSE ""

\* new URL(s): the WHATWG parser on a special-scheme URL; it drops the
\* scheme's default port, and throws TypeError on anything it cannot parse.
ParseURL(s) ==
    IF /\ Len(s) \in {3, 5}
       /\ s[1] \in {"https:", "http:"}
       /\ s[2] = "//"
       /\ s[3] \in {"localhost", "192.168.1.241"}
       /\ Len(s) = 5 => (s[4] = ":" /\ s[5] \in {"5001", "443", "80"})
    THEN [ok |-> TRUE,
          url |-> [protocol |-> s[1], hostname |-> s[3],
                   port |-> IF Len(s) = 5 /\ s[5] # DefaultPort(s[1])
                            THEN s[5] ELSE ""]]
    ELSE [ok |-> FALSE, url |-> NoURL]

\* new URL("https://localhost:5001")
DefaultURL == ParseURL(<<"https:", "//", "localhost", ":", "5001">>).url

\* What a caller may hand to the constructor.
CtorArg(t, s, u) == [t |-> t, s |-> s, u |-> u]
CtorArgs ==
    { CtorArg("undefined", <<>>, NoURL),
      CtorArg("number", <<>>, NoURL),
      CtorArg("URL", <<>>, [protocol |-> "https:", hostname |-> "192.168.1.241", port |-> "5001"]),
      CtorArg("string", <<"https:", "//", "192.168.1.241", ":", "5001">>, NoURL),
      CtorArg("string", <<"192.168.1.241">>, NoURL),
      CtorArg("string", <<>>, NoURL) }

\* constructor(url): the instance it leaves, or that it threw
NasConstructor(a) ==
    IF a.t = "URL"
    THEN [threw |-> FALSE, url |-> a.u, sid |-> Str("")]
    ELSE IF a.t = "string"
    THEN IF ParseURL(a.s).ok
         THEN [threw |-> FALSE, url |-> ParseURL(a.s).url, sid |-> Str("")]
         ELSE [threw |-> TRUE, url |-> NoURL, sid |-> Undefined]
    ELSE [threw |-> FALSE, url |-> DefaultURL, sid |-> Str("")]

(***************************************************************************)
(* console.log: one entry is a text and the number appended to it (-1 when *)
(* the text stands alone).                                                 *)
(***************************************************************************)
LogEntry(msg, n) == [msg |-> msg, n |-> n]

\* the switch of login over response.data.error.code
LoginErrorText(code) ==
    CASE code = 400 -> <<LogEntry("No such account or incorrect password", -1)>>
      [] code = 401 -> <<LogEntry("Account disabled", -1)>>
      [] code = 402 -> <<LogEntry("Permission denied", -1)>>
      [] code = 403 -> <<LogEntry("2-step verification code required", -1)>>
      [] code = 404 -> <<LogEntry("Failed to authenticate 2-step verification code", -1)>>
      [] OTHER -> <<>>

(***************************************************************************)
(* The .then handlers.  Each yields what the handler returned (or that it  *)
(* threw: reading a property of undefined or null is a TypeError), the     *)
(* value of this._sid it leaves, and what it logged.                       *)
(***************************************************************************)
Return(v, sid, lg) == [threw |-> FALSE, ret |-> v, sid |-> sid, log |-> lg]
Throw(sid, lg) == [threw |-> TRUE, ret |-> Undefined, sid |-> sid, log |-> lg]
HttpError(response, sid) ==
    Return(Undefined, sid, <<LogEntry("Http error code: ", response.status)>>)

ThenInfo(response, sid) ==
    IF response.status = HTTP_OK
    THEN IF ~response.body.isObj THEN Throw(sid, <<>>)
         ELSE IF response.body.success
         THEN Return(DataVal(response.body), sid, <<>>)
         ELSE IF ~response.body.hasError THEN Throw(sid, <<>>)
         ELSE Return(Undefined, sid,
                     <<LogEntry("API Error Code: ", response.body.code)>>)
    ELSE HttpError(response, sid)

\* login as it would be if it answered true without storing the sid
ThenLoginForgetsSid(response, sid) ==
    IF response.status = HTTP_OK
    THEN IF ~response.body.isObj THEN Throw(sid, <<>>)
         ELSE IF response.body.success
         THEN IF ~response.body.hasData THEN Throw(sid, <<>>)
              ELSE Return(Bool(TRUE), sid, <<>>)
         ELSE IF ~response.body.hasError THEN Throw(sid, <<>>)
         ELSE Return(Undefined, sid, LoginErrorText(response.body.code))
    ELSE HttpError(response, sid)

\* login as it would be if it stored data.sid before looking at success
ThenLoginStoresEarly(response, sid) ==
    IF response.status = HTTP_OK
    THEN IF ~response.body.isObj THEN Throw(sid, <<>>)
         ELSE IF response.body.success
         THEN IF ~response.body.hasData THEN Throw(sid, <<>>)
              ELSE Return(Bool(TRUE), SidVal(response.body), <<>>)
         ELSE IF ~response.body.hasError THEN Throw(SidVal(response.body), <<>>)
         ELSE Return(Undefined, SidVal(response.body),
                     LoginErrorText(response.body.code))
    ELSE HttpError(response, sid)

ThenLogin(response, sid) ==
    IF response.status = HTTP_OK
    THEN IF ~response.body.isObj THEN Throw(sid, <<>>)
         ELSE IF response.body.success
         THEN IF ~response.body.hasData THEN Throw(sid, <<>>)
              ELSE Return(Bool(TRUE), SidVal(response.body), <<>>)
         ELSE IF ~response.body.hasError THEN Throw(sid, <<>>)
         ELSE Return(Undefined, sid, LoginErrorText(response.body.code))
    ELSE HttpError(response, sid)

\* logout as it would be if it cleared the token once the server agreed
ThenLogoutClearsSid(response, sid) ==
    IF response.status = HTTP_OK
    THEN IF ~response.body.isObj THEN Throw(sid, <<>>)
         ELSE Return(Bool(response.body.success),
                     IF response.body.success THEN Str("") ELSE sid, <<>>)
    ELSE Return(Undefined, sid, <<>>)

ThenLogout(response, sid) ==
    IF response.status = HTTP_OK
    THEN IF ~response.body.isObj THEN Throw(sid, <<>>)
         ELSE Return(Bool(response.body.success), sid, <<>>)
    ELSE Return(Undefined, sid, <<>>)

\* getTaskList as it would be if it returned the envelope, as getTaskInfo does
ThenGetTaskListEnvelope(response, sid) ==
    IF response.status = HTTP_OK
    THEN IF ~response.body.isObj THEN Throw(sid, <<>>)
         ELSE IF response.body.success
         THEN Return(BodyVal(response.body), sid, <<>>)
         ELSE Return(Undefined, sid, <<>>)
    ELSE HttpError(response, sid)

ThenGetTaskList(response, sid) ==
    IF response.status = HTTP_OK
    THEN IF ~response.body.isObj THEN Throw(sid, <<>>)
         ELSE IF response.body.success
         THEN IF ~response.body.hasData THEN Throw(sid, <<>>)
              ELSE Return(TasksVal(response.body), sid, <<>>)
         ELSE Return(Undefined, sid, <<>>)
    ELSE HttpError(response, sid)

ThenGetTaskInfo(response, sid) ==
    IF response.status = HTTP_OK
    THEN IF ~response.body.isObj THEN Throw(sid, <<>>)
         ELSE IF response.body.success
         THEN Return(BodyVal(response.body), sid, <<>>)
         ELSE Return(Undefined, sid, <<>>)
    ELSE HttpError(response, sid)

ThenCreateTask(response, sid) ==
    IF response.status = HTTP_OK
    THEN Return(BodyVal(response.body), sid, <<>>)
    ELSE Return(Undefined, sid, <<>>)

\* deleteTask as it would be if it looked at the envelope, as getTaskInfo does
ThenDeleteTaskChecksSuccess(response, sid) ==
    IF response.status = HTTP_OK
    THEN IF ~response.body.isObj THEN Throw(sid, <<>>)
         ELSE IF response.body.success
         THEN Return(BodyVal(response.body), sid, <<>>)
         ELSE Return(Undefined, sid, <<>>)
    ELSE Return(Undefined, sid, <<>>)

ThenDeleteTask(response, sid) ==
    IF response.status = HTTP_OK
    THEN Return(BodyVal(response.body), sid, <<>>)
    ELSE Return(Undefined, sid, <<>>)

ThenPauseTask(response, sid) ==
    IF response.status = HTTP_OK
    THEN Return(BodyVal(response.body), sid, <<>>)
    ELSE Return(Undefined, sid, <<>>)

ThenResumeTask(response, sid) ==
    IF response.status = HTTP_OK
    THEN Return(BodyVal(response.body), sid, <<>>)
    ELSE Return(Undefined, sid, <<>>)

Then(op, response, sid) ==
    CASE op = "info" -> ThenInfo(response, sid)
      [] op = "login" -> ThenLogin(response, sid)
      [] op = "logout" -> ThenLogout(response, sid)
      [] op = "getTaskList" -> ThenGetTaskList(response, sid)
      [] op = "getTaskInfo" -> ThenGetTaskInfo(response, sid)
      [] op = "createTask" -> ThenCreateTask(response, sid)
      [] op = "deleteTask" -> ThenDeleteTask(response, sid)
      [] op = "pauseTask" -> ThenPauseTask(response, sid)
      [] op = "resumeTask" -> ThenResumeTask(response, sid)

(***************************************************************************)
(* The .catch handler: console.log(error), and the promise is fulfilled    *)
(* with what the handler returns, which is undefined.                      *)
(***************************************************************************)
\* a .catch handler that logs and throws the error on
CatchRethrows(sid, lg, error) ==
    [state |-> "rejected", ret |-> Undefined, sid |-> sid,
     log |-> lg \o <<LogEntry(error, -1)>>]

Catch(sid, lg, error) ==
    [state |-> "fulfilled", ret |-> Undefined, sid |-> sid,
     log |-> lg \o <<LogEntry(error, -1)>>]

\* axios.request(config).then(...).catch(...) once the transport answered
Chain(op, response, sid) ==
    IF response.kind = "error"
    THEN Catch(sid, <<>>, "Error: Network Error")
    ELSE LET r == Then(op, response, sid)
         IN  IF r.threw
             THEN Catch(r.sid, r.log, "TypeError")
             ELSE [state |-> "fulfilled", ret |-> r.ret, sid |-> r.sid,
                   log |-> r.log]

(***************************************************************************)
(* Request configurations.                                                 *)
(***************************************************************************)
\* this._url.origin, as the tokens of the string
Origin(u) ==
    <<u.protocol, "//", u.hostname>>
        \o (IF u.port = "" THEN <<>> ELSE <<":", u.port>>)

\* a parameter the configuration does not have
NoParam == [t |-> "absent", s |-> "", o |-> NoBody]

\* the configurations of info, login and logout: no _sid parameter
PlainConfig(url, path, api, version, method, p) ==
    [baseURL |-> Origin(url), url |-> path, api |-> api, version |-> version,
     method |-> method, _sid |-> NoParam, p |-> p]

\* a task configuration that leaves the token out
TaskConfigNoSid(url, sid, version, method, p) ==
    [baseURL |-> Origin(url), url |-> "/webapi/DownloadStation/task.cgi",
     api |-> "SYNO.DownloadStation.Task", version |-> version,
     method |-> method, _sid |-> Str(""), p |-> p]

\* the configurations of the task operations: params._sid is this._sid
TaskConfig(url, sid, version, method, p) ==
    [baseURL |-> Origin(url), url |-> "/webapi/DownloadStation/task.cgi",
     api |-> "SYNO.DownloadStation.Task", version |-> version,
     method |-> method, _sid |-> sid, p |-> p]

NoConfig == PlainConfig(NoURL, "", "", 0, "", "")

Privileged ==
    {"getTaskList", "getTaskInfo", "createTask", "deleteTask", "pauseTask",
     "resumeTask"}

(***************************************************************************)
(* The transport.                                                          *)
(***************************************************************************)
\* axios.request(config): one request goes out
AxiosRequest(h, req) == [net |-> h.net \cup {req}, count |-> h.count + 1]

\* a transport that sends a failed request again
AxiosRetries(h, req, out) ==
    IF out.ret = Undefined
    THEN [net |-> h.net, count |-> h.count + 1]
    ELSE [net |-> h.net \ {req}, count |-> h.count]

\* the promise of a request settles: the request is over
AxiosSettled(h, req, out) == [net |-> h.net \ {req}, count |-> h.count]

NoCall ==
    [id |-> 0, op |-> "none", config |-> NoConfig, epoch |-> 0,
     response |-> NetworkError, state |-> "none", ret |-> Undefined,
     sidBefore |-> Undefined, sidAfter |-> Undefined, logBefore |-> 0]

(***************************************************************************)
(* The state after nothing happened yet, and the constructor.              *)
(***************************************************************************)
Init ==
    /\ ctor = "new"
    /\ arg = CtorArg("undefined", <<>>, NoURL)
    /\ _url = NoURL
    /\ _sid = Undefined
    /\ http = [net |-> {}, count |-> 0]
    /\ calls = 0
    /\ settled = 0
    /\ log = <<>>
    /\ last = NoCall
    /\ granted = <<>>

Constructor ==
    /\ ctor = "new"
    /\ \E a \in CtorArgs :
        LET n == NasConstructor(a)
        IN  /\ arg' = a
            /\ ctor' = IF n.threw THEN "threw" ELSE "done"
            /\ _url' = n.url
            /\ _sid' = n.sid
    /\ UNCHANGED <<http, calls, settled, log, last, granted>>

(***************************************************************************)
(* Invoking an operation: the synchronous part of the async function, up   *)
(* to the await.                                                           *)
(***************************************************************************)
Invoke(op, config) ==
    /\ ctor = "done"
    /\ calls < MaxCalls
    /\ calls' = calls + 1
    /\ http' = AxiosRequest(http, [id |-> calls + 1, op |-> op,
                                   config |-> config, epoch |-> Len(granted)])
    /\ UNCHANGED <<ctor, arg, _url, _sid, settled, log, last, granted>>

info ==
    Invoke("info",
           PlainConfig(_url, "/webapi/query.cgi", "SYNO.API.Info", 1, "query", "all"))

login ==
    \E nas_username \in {"admin"}, nas_password \in {"secret"} :
        Invoke("login",
               PlainConfig(_url, "/webapi/auth.cgi", "SYNO.API.Auth", 6, "login",
                           nas_username))

logout ==
    Invoke("logout",
           PlainConfig(_url, "/webapi/auth.cgi", "SYNO.API.Auth", 1, "logout", ""))

getTaskList ==
    \E offset \in {0, 5}, limit \in {-1, 10}, additional \in {"", "detail"} :
        Invoke("getTaskList", TaskConfig(_url, _sid, 1, "list", additional))

getTaskInfo ==
    \E id \in {"dbid_100"}, additional \in {"", "detail"} :
        Invoke("getTaskInfo", TaskConfig(_url, _sid, 1, "getinfo", id))

createTask ==
    \E uri \in {"magnet:?xt=urn:btih:0"} :
        Invoke("createTask", TaskConfig(_url, _sid, 3, "create", uri))

deleteTask ==
    \E id \in {"dbid_100"}, force_complete \in BOOLEAN :
        Invoke("deleteTask", TaskConfig(_url, _sid, 1, "delete", id))

pauseTask ==
    \E taskId \in {"dbid_100"} :
        Invoke("pauseTask", TaskConfig(_url, _sid, 1, "pause", taskId))

resumeTask ==
    \E taskId \in {"dbid_100"} :
        Invoke("resumeTask", TaskConfig(_url, _sid, 1, "resume", taskId))

(***************************************************************************)
(* Settling an operation: the transport answers one request in flight and  *)
(* the promise chain of that operation runs to its end.                    *)
(***************************************************************************)
Settle(op) ==
    \E req \in http.net, response \in Responses :
        LET out == Chain(op, response, _sid)
        IN  /\ req.op = op
            /\ _sid' = out.sid
            /\ log' = log \o out.log
            /\ http' = AxiosSettled(http, req, out)
            /\ settled' = settled + 1
            /\ granted' = IF op = "login" /\ out.ret = Bool(TRUE)
                          THEN Append(granted, SidVal(response.body))
                          ELSE granted
            /\ last' = [id |-> req.id, op |-> op, config |-> req.config,
                        epoch |-> req.epoch, response |-> response,
                        state |-> out.state, ret |-> out.ret,
                        sidBefore |-> _sid, sidAfter |-> out.sid,
                        logBefore |-> Len(log)]
            /\ UNCHANGED <<ctor, arg, _url, calls>>

infoSettled == Settle("info")
loginSettled == Settle("login")
logoutSettled == Settle("logout")
getTaskListSettled == Settle("getTaskList")
getTaskInfoSettled == Settle("getTaskInfo")
createTaskSettled == Settle("createTask")
deleteTaskSettled == Settle("deleteTask")
pauseTaskSettled == Settle("pauseTask")
resumeTaskSettled == Settle("resumeTask")

Next ==
    \/ Constructor
    \/ info \/ login \/ logout \/ getTaskList \/ getTaskInfo
    \/ createTask \/ deleteTask \/ pauseTask \/ resumeTask
    \/ infoSettled \/ loginSettled \/ logoutSettled
    \/ getTaskListSettled \/ getTaskInfoSettled
    \/ createTaskSettled \/ deleteTaskSettled
    \/ pauseTaskSettled \/ resumeTaskSettled

Spec == Init /\ [][Next]_vars

(***************************************************************************)
(* Properties.                                                             *)
(***************************************************************************)
Settled(ops) == last.op \in ops
Ok200 == last.response.kind = "response" /\ last.response.status = HTTP_OK
Body == last.response.body
\* what the settled operation logged
Logged == SubSeq(log, last.logBefore + 1, Len(log))
\* the .then handler of the settled operation threw
HandlerThrew ==
    /\ last.response.kind = "response"
    /\ Then(last.op, last.response, last.sidBefore).threw
\* a request carries the token the last successful login before it stored
TokenAt(epoch) == IF epoch = 0 THEN Str("") ELSE granted[epoch]

\* C1: an operation whose transport rejected, or whose response handler
\* threw on a malformed body, is fulfilled with undefined; no operation is
\* ever rejected.
C1_FailuresResolveUndefined ==
    last.op # "none" =>
        /\ last.state = "fulfilled"
        /\ (last.response.kind = "error" \/ HandlerThrew) => last.ret = Undefined

\* a login answered success:true without a data object was fulfilled with
\* undefined, after a transport error had been caught too
C1_Witness ==
    /\ Settled({"login"}) /\ Ok200 /\ Body.isObj /\ Body.success /\ ~Body.hasData
    /\ last.state = "fulfilled" /\ last.ret = Undefined
    /\ \E i \in 1..Len(log) : log[i].msg = "Error: Network Error"

\* C2 as stated: login answered 200 with success=true stores the sid of the
\* response and resolves true, and resolves true in no other case.
C2_AsStated ==
    Settled({"login"}) =>
        /\ (Ok200 /\ Body.isObj /\ Body.success) =>
               (last.ret = Bool(TRUE) /\ last.sidAfter = SidVal(Body))
        /\ last.ret = Bool(TRUE) => (Ok200 /\ Body.isObj /\ Body.success)

\* C2 (amended): login answered 200 with success=true and a data object
\* stores the sid of that data object and resolves true, and resolves true
\* in no other case.
C2_LoginStoresSid ==
    Settled({"login"}) =>
        /\ (Ok200 /\ Body.isObj /\ Body.success /\ Body.hasData) =>
               (last.ret = Bool(TRUE) /\ last.sidAfter = SidVal(Body))
        /\ last.ret = Bool(TRUE) =>
               (Ok200 /\ Body.isObj /\ Body.success /\ Body.hasData)

\* a second login replaced the token of the first
C2_Witness ==
    /\ Settled({"login"}) /\ last.ret = Bool(TRUE)
    /\ last.sidBefore = Str("sid_1") /\ _sid = Str("sid_2")

\* C3: a login that fails (success=false with any code, non-200, transport
\* error, malformed body) resolves undefined and leaves the token as it
\* was; a client no login of which succeeded holds the empty string.
C3_FailedLoginKeepsSid ==
    /\ (Settled({"login"}) /\ ~(Ok200 /\ Body.isObj /\ Body.success /\ Body.hasData)) =>
           (last.ret = Undefined /\ last.sidAfter = last.sidBefore)
    /\ (ctor = "done" /\ granted = <<>>) => _sid = Str("")

\* a login refused with a code the switch does not know, on a fresh client
C3_Witness ==
    /\ Settled({"login"}) /\ Ok200 /\ Body.isObj /\ ~Body.success
    /\ Body.hasError /\ Body.code = 105
    /\ granted = <<>> /\ _sid = Str("") /\ last.ret = Undefined

\* C4: getTaskList resolves the data.tasks of the response when the status
\* is 200 and success=true (undefined when the response has none), and
\* undefined in every other case, whatever offset, limit and additional.
C4_TaskListUnwrapped ==
    Settled({"getTaskList"}) =>
        last.ret = IF Ok200 /\ Body.isObj /\ Body.success
                   THEN TasksVal(Body) ELSE Undefined

\* getTaskList resolved the tasks of the response
C4_Witness ==
    /\ Settled({"getTaskList"}) /\ Ok200 /\ Body.success
    /\ last.ret = Arr("tasks_2")

\* C5: createTask, deleteTask, pauseTask and resumeTask resolve the whole
\* body on status 200, whatever the success flag, and undefined otherwise.
C5_BodyVerbatim ==
    Settled({"createTask", "deleteTask", "pauseTask", "resumeTask"}) =>
        last.ret = IF Ok200 THEN BodyVal(Body) ELSE Undefined

\* deleteTask resolved an envelope that says success=false
C5_Witness ==
    /\ Settled({"deleteTask"}) /\ Ok200 /\ Body.isObj /\ ~Body.success
    /\ last.ret = BodyVal(Body)

\* what the constructor takes for no usable endpoint
Malformed(a) == a.t # "URL" /\ ~(a.t = "string" /\ ParseURL(a.s).ok)

\* C6: constructed with no argument or a malformed one (an unparseable
\* string included), the client exists, its endpoint is the default origin
\* and its token is empty.
C6_MalformedFallsBack ==
    (ctor # "new" /\ Malformed(arg)) =>
        /\ ctor = "done"
        /\ _url = DefaultURL
        /\ calls = 0 => _sid = Str("")

\* C7: logout leaves the token as it was, whatever its outcome: after a
\* logout the client still holds the sid of the last successful login (the
\* empty string when there was none), which the next task request carries.
C7_LogoutKeepsSid ==
    Settled({"logout"}) =>
        /\ last.sidAfter = last.sidBefore
        /\ _sid = last.sidBefore
        /\ _sid = TokenAt(Len(granted))
        /\ \A req \in http.net :
               (req.op \in Privileged /\ req.epoch = Len(granted)) =>
                   req.config._sid = last.sidBefore

\* a logout the server agreed to, and the token of the login is still there
C7_Witness ==
    /\ Settled({"logout"}) /\ Ok200 /\ Body.isObj /\ Body.success
    /\ last.ret = Bool(TRUE) /\ _sid = Str("sid_1")

\* C8: a task request carries the token stored when the operation was
\* invoked: the sid of the last login that had resolved true by then, the
\* empty string when there was none, whatever a login did afterwards.
C8_SidAtInvocation ==
    /\ \A req \in http.net :
           req.op \in Privileged => req.config._sid = TokenAt(req.epoch)
    /\ Settled(Privileged) => last.config._sid = TokenAt(last.epoch)

\* a task request went out with the empty token while a login was in
\* flight, and that login has succeeded since
C8_Witness ==
    \E req \in http.net :
        /\ req.op \in Privileged
        /\ req.epoch = 0 /\ Len(granted) = 1
        /\ req.config._sid = Str("") /\ _sid = Str("sid_1")

\* C9: on status 200 with success=false, login logs the text of the codes
\* 400..404, and info, getTaskList and getTaskInfo log the code.
C9_EnvelopeErrorLogged ==
    (Ok200 /\ Body.isObj /\ ~Body.success /\ Body.hasError) =>
        /\ (Settled({"login"}) /\ Body.code \in 400..404) =>
               Logged = LoginErrorText(Body.code)
        /\ Settled({"info", "getTaskList", "getTaskInfo"}) =>
               \E i \in 1..Len(Logged) : Logged[i].n = Body.code

\* C10: every invocation issues one request and is settled once: as many
\* requests went out as operations were invoked, and each invocation is
\* either in flight or was settled.
C10_OneRequestPerCall ==
    /\ http.count = calls
    /\ settled + Cardinality(http.net) = calls
    /\ \A r1, r2 \in http.net : r1.id = r2.id => r1 = r2
    /\ \A req \in http.net : req.id \in 1..calls /\ req.id # last.id

\* two failed operations, two requests
C10_Witness ==
    /\ calls = 2 /\ settled = 2 /\ http.count = 2
    /\ last.ret = Undefined /\ Len(log) = 2

====
